---- MODULE Spec2Model ----
(***************************************************************************)
(* Model of the trade lifecycle supervisor of adhoc_trade.py: the trade    *)
(* store (trades.json), the open flow of main(), RESUME, and the monitor   *)
(* loop of monitor_trade(), together with the gateway calls they make.     *)
(*                                                                         *)
(* One supervisor process runs at a time (pc = "idle" when none does).     *)
(* Every statement that reads or writes the store, calls the gateway or    *)
(* assigns a guard is a step of its own, so that a KeyboardInterrupt can   *)
(* land between any two of them, as it can in CPython.                     *)
(*                                                                         *)
(* Units: prices are whole numbers; a quantity is a whole number of lot    *)
(* steps (0.001), and an unrounded quantity a whole number of tenths of a  *)
(* lot step (0.0001).                                                      *)
(***************************************************************************)
EXTENDS Integers, Sequences, FiniteSets, TLC

\* ------------------------------------------------------------------ bounds
MaxRuns == 2
MaxOpens == 1
MaxIter == 2

\* --------------------------------------------------------------- constants
\* _send_signed_request returns None on any failure.
NONE == 0
SYMBOL == "B-BTC_USDT"
\* edit_resp.get('code') == 200
CODE_OK == 200
\* chunk_qty = qty / 4
TP_SPLIT == 4
\* step_size = 0.001, in tenths of a lot step
STEP_TENTHS == 10

VARIABLES
    file,           \* TRADES_FILE on disk
    clock,          \* int(time.time())
    nextOid,        \* the next order id the gateway hands out
    pc,             \* the statement the supervisor process is at
    ret,            \* where the running store operation returns to
    exit,           \* how the last process ended: its last message
    action,         \* args.side.upper()
    config,         \* load_config()
    side, qty, current_price, targets, sl_price, order, sl_order_id, tp_ids, tp_i,
    trade,          \* trade_data / the record monitor_trade was given
    sl_moved, curr_price, edit_resp, new_sl_resp,
    trades, w_i,    \* the list a store operation holds, and how much is written
    u_key, u_val,   \* update_trade's key and value
    calls,          \* the gateway calls of the current process, in order
    iter,           \* monitor iterations so far, of all processes
    runs, opens,    \* processes started, trades opened
    migrations,     \* per trade, the successful migration actions so far
    saved,          \* the collection the last completed save_trades wrote
    readerSaw,      \* what a concurrent reader last found in TRADES_FILE
    call, before, out   \* a library call made on its own: the call, the
                        \* file it found, and what it returned

storeLocals == <<trades, w_i, u_key, u_val, ret>>
storeVars == <<file, storeLocals>>
openVars == <<action, config, side, qty, current_price, targets, sl_price, order,
              tp_ids, tp_i>>
monVars == <<trade, sl_order_id, sl_moved, curr_price, edit_resp, new_sl_resp, iter>>
gwVars == <<calls, nextOid, migrations>>
unitVars == <<call, before, out>>
envVars == <<clock, runs, opens, saved, readerSaw, unitVars>>
vars == <<pc, exit, storeVars, openVars, monVars, gwVars, envVars>>

\* ------------------------------------------------------------------ inputs
Sides == {"LONG", "SHORT"}
\* get_klines at open time: an empty frame, or candles of which the last
\* close and the previous candle's high and low are used.
NoData == 0
OpenFrames == {[empty |-> TRUE, close |-> NoData, high |-> NoData, low |-> NoData],
               [empty |-> FALSE, close |-> 100, high |-> 101, low |-> 100]}
\* the closes the monitor may fetch (NoData: an empty frame)
MonitorPrices == {95, 105}

\* config.json: position size in tenths of a lot step (0.0005 rounds to no
\* lot, 0.0016 to two lots, 0.004 is four), the take-profit offsets and the
\* trigger level (0: disabled; 2: the second target, out of range when there
\* is one target only).
Config(q, p, m) ==
    [pos_value |-> q, tp_fixed_points |-> p, move_sl_to_entry_when_tp_hit |-> m,
     sl_candle_multiplier |-> 2]
\* The command lines tried: the side, with the config.json in place.
Launches == {<<"LONG", Config(5, <<3>>, 1)>>,
             <<"LONG", Config(40, <<3, 5>>, 2)>>,
             <<"SHORT", Config(40, <<3, 5>>, 2)>>,
             <<"SHORT", Config(16, <<3>>, 2)>>,
             <<"LONG", Config(16, <<3>>, 0)>>}

NoTrade == [id |-> 0]
\* No library call was made on its own.
NoCall == [fn |-> "", n |-> 0]

\* -------------------------------------------------------------- trade store
\* The file is missing, holds a complete JSON document ("json"), or holds
\* what a writer has put out so far after truncating it ("torn").
FileMissing == [state |-> "missing", recs |-> <<>>]

\* load_trades: [] when the file is missing or json.load raises.
load_trades(f) == IF f.state = "json" THEN f.recs ELSE <<>>

\* open(TRADES_FILE, 'w') truncates the file.
Truncated == [state |-> "torn", recs |-> <<>>]

\* json.dump writes the document piece by piece; the file is a whole
\* document again only when the last piece is out and the file is closed.
DumpNext(f, ts, i) ==
    IF i <= Len(ts)
    THEN [state |-> "torn", recs |-> Append(f.recs, ts[i])]
    ELSE [state |-> "json", recs |-> ts]

\* update_trade's loop: the first record whose id matches, 0 when none does.
FirstMatch(ts, trade_id) ==
    IF \E i \in 1..Len(ts) : ts[i].id = trade_id
    THEN CHOOSE i \in 1..Len(ts) :
            /\ ts[i].id = trade_id
            /\ \A j \in 1..(i - 1) : ts[j].id # trade_id
    ELSE 0

SetField(t, key, value) ==
    IF key = "sl_moved" THEN [t EXCEPT !.sl_moved = value]
    ELSE [t EXCEPT !.sl_order_id = value]

\* ------------------------------------------------------------------ gateway
\* A response of _send_signed_request: None (json = FALSE), or the decoded
\* body, of which the supervisor reads 'id' and 'code' (NONE when absent).
NoResp == [json |-> FALSE, id |-> NONE, code |-> NONE]
Body(i, c) == [json |-> TRUE, id |-> i, code |-> c]
PlaceResps(oid) == {NoResp, Body(NONE, NONE), Body(oid, NONE)}
EditResps == {NoResp, Body(NONE, CODE_OK), Body(NONE, 400)}
\* "resp and resp.get('id')"
HasId(resp) == resp.json /\ resp.id # NONE
\* "edit_resp and edit_resp.get('code') == 200"
EditOk(resp) == resp.json /\ resp.code = CODE_OK

\* An entry of the log of gateway calls: the caller, the call, its arguments
\* and what the supervisor reads of the answer.
PlaceCall(by, s, q, type, price, resp) ==
    [by |-> by, op |-> "place_order", ref |-> NONE, side |-> s, qty |-> q,
     type |-> type, price |-> price, res |-> resp.id]
EditCall(oid, stop, resp) ==
    [by |-> "monitor_trade", op |-> "edit_order", ref |-> oid, side |-> "", qty |-> 0,
     type |-> "", price |-> stop, res |-> resp.code]
CancelCall(oid) ==
    [by |-> "monitor_trade", op |-> "cancel_order", ref |-> oid, side |-> "", qty |-> 0,
     type |-> "", price |-> 0, res |-> NONE]

\* ------------------------------------------------------------- risk planner
Abs(x) == IF x < 0 THEN 0 - x ELSE x

\* direction.upper(), on the spellings of a direction that are tried.
Upper(s) ==
    IF s \in {"LONG", "long", "Long"} THEN "LONG"
    ELSE IF s \in {"SHORT", "short", "Short"} THEN "SHORT"
    ELSE s

get_candle_based_stop_loss(entry_price, direction, candle_high, candle_low, multiplier) ==
    LET distance == Abs(candle_high - candle_low) * multiplier
    IN  IF Upper(direction) = "LONG" THEN entry_price - distance
        ELSE IF Upper(direction) = "SHORT" THEN entry_price + distance
        ELSE entry_price

\* Mutant of get_stop_loss_price: the direction is compared as it is spelled.
get_stop_loss_price_AsSpelled(entry_price, direction, atr, sl_multiplier) ==
    LET distance == atr * sl_multiplier
    IN  IF direction = "LONG" THEN entry_price - distance
        ELSE IF direction = "SHORT" THEN entry_price + distance
        ELSE entry_price

\* RiskManager.get_stop_loss_price; sl_multiplier is self.sl_multiplier.
get_stop_loss_price(entry_price, direction, atr, sl_multiplier) ==
    LET distance == atr * sl_multiplier
    IN  IF Upper(direction) = "LONG" THEN entry_price - distance
        ELSE IF Upper(direction) = "SHORT" THEN entry_price + distance
        ELSE entry_price

\* Mutant of calculate_fixed_point_targets: the targets come out last first.
calculate_fixed_point_targets_Reversed(entry_price, direction, points) ==
    [i \in 1..Len(points) |->
        IF Upper(direction) = "LONG" THEN entry_price + points[Len(points) + 1 - i]
        ELSE entry_price - points[Len(points) + 1 - i]]

calculate_fixed_point_targets(entry_price, direction, points) ==
    [i \in 1..Len(points) |->
        IF Upper(direction) = "LONG" THEN entry_price + points[i]
        ELSE entry_price - points[i]]

\* A quotient of two numbers, kept as the pair; a / b of two quotients.
Frac(n, d) == [num |-> n, den |-> d]
FracDiv(a, b) == Frac(a.num * b.den, a.den * b.num)
FracMul(a, b) == Frac(a.num * b.num, a.den * b.den)
FracEq(a, b) == a.num * b.den = b.num * a.den

\* Mutant of calculate_qty: MARGIN without the leverage.
calculate_qty_Unlevered(risk_type, risk_value, balance, entry_price, leverage) ==
    IF risk_type = "FIXED_SIZE" THEN Frac(risk_value, 1)
    ELSE IF risk_type = "PERCENTAGE"
    THEN LET allocation == FracMul(Frac(balance, 1), Frac(risk_value, 100))
         IN  FracDiv(allocation, Frac(entry_price, 1))
    ELSE IF risk_type = "MARGIN"
    THEN LET notional == Frac(risk_value, 1)
         IN  FracDiv(notional, Frac(entry_price, 1))
    ELSE IF risk_type = "MARGIN_PERCENTAGE"
    THEN LET margin_amt == FracMul(Frac(balance, 1), Frac(risk_value, 100))
             notional == FracMul(margin_amt, Frac(leverage, 1))
         IN  FracDiv(notional, Frac(entry_price, 1))
    ELSE Frac(0, 1)

\* RiskManager.calculate_qty; risk_type and risk_value are the instance's.
calculate_qty(risk_type, risk_value, balance, entry_price, leverage) ==
    IF risk_type = "FIXED_SIZE" THEN Frac(risk_value, 1)
    ELSE IF risk_type = "PERCENTAGE"
    THEN LET allocation == FracMul(Frac(balance, 1), Frac(risk_value, 100))
         IN  FracDiv(allocation, Frac(entry_price, 1))
    ELSE IF risk_type = "MARGIN"
    THEN LET notional == FracMul(Frac(risk_value, 1), Frac(leverage, 1))
         IN  FracDiv(notional, Frac(entry_price, 1))
    ELSE IF risk_type = "MARGIN_PERCENTAGE"
    THEN LET margin_amt == FracMul(Frac(balance, 1), Frac(risk_value, 100))
             notional == FracMul(margin_amt, Frac(leverage, 1))
         IN  FracDiv(notional, Frac(entry_price, 1))
    ELSE Frac(0, 1)

\* -------------------------------------------------------------------- sizing
\* round(): to the nearest whole number, a tie to the even one.
RoundHalfEven(num, den) ==
    LET fl == num \div den
        r2 == 2 * (num % den)
    IN  IF r2 < den THEN fl
        ELSE IF r2 > den THEN fl + 1
        ELSE IF fl % 2 = 0 THEN fl ELSE fl + 1

\* steps = qty / step_size; qty = round(steps) * step_size; f"{qty:.3f}".
\* From tenths of a lot step to whole lot steps.
RoundQty(tenths) == RoundHalfEven(tenths, STEP_TENTHS)

\* float(f"{qty / 4:.3f}"), in lot steps. The float quotient of a decimal
\* tie (qty = 2, 6, 10, 14 steps) lies above the tie and is formatted upwards.
ChunkQty(q) ==
    LET fl == q \div TP_SPLIT
        r2 == 2 * (q % TP_SPLIT)
    IN  IF r2 < TP_SPLIT THEN fl ELSE fl + 1

\* ------------------------------------------------------------- the process
NoConfig == [pos_value |-> 0, tp_fixed_points |-> <<>>,
             move_sl_to_entry_when_tp_hit |-> 0, sl_candle_multiplier |-> 0]

Init ==
    /\ file = FileMissing
    /\ clock = 0
    /\ nextOid = 1
    /\ pc = "idle"
    /\ ret = ""
    /\ exit = "none"
    /\ action = ""
    /\ config = NoConfig
    /\ side = ""
    /\ qty = 0
    /\ current_price = NoData
    /\ order = NoResp
    /\ targets = <<>>
    /\ sl_price = 0
    /\ sl_order_id = NONE
    /\ tp_ids = <<>>
    /\ tp_i = 0
    /\ trade = NoTrade
    /\ sl_moved = FALSE
    /\ curr_price = NoData
    /\ edit_resp = NoResp
    /\ new_sl_resp = NoResp
    /\ trades = <<>>
    /\ w_i = 0
    /\ u_key = ""
    /\ u_val = NONE
    /\ calls = <<>>
    /\ iter = 0
    /\ runs = 0
    /\ opens = 0
    /\ migrations = <<>>
    /\ saved = <<>>
    /\ readerSaw = FileMissing
    /\ call = NoCall
    /\ before = FileMissing
    /\ out = NONE

\* The process ends: its locals, and the log of its gateway calls, are gone.
Exit(how) ==
    /\ calls' = <<>>
    /\ pc' = "idle"
    /\ exit' = how
    /\ ret' = ""
    /\ action' = ""
    /\ config' = NoConfig
    /\ side' = ""
    /\ qty' = 0
    /\ current_price' = NoData
    /\ order' = NoResp
    /\ targets' = <<>>
    /\ sl_price' = 0
    /\ sl_order_id' = NONE
    /\ tp_ids' = <<>>
    /\ tp_i' = 0
    /\ trade' = NoTrade
    /\ sl_moved' = FALSE
    /\ curr_price' = NoData
    /\ edit_resp' = NoResp
    /\ new_sl_resp' = NoResp
    /\ trades' = <<>>
    /\ w_i' = 0
    /\ u_key' = ""
    /\ u_val' = NONE
    /\ UNCHANGED iter

\* The statements inside monitor_trade's try block, and the store
\* operations it calls.
MonitorPcs == {"sleep", "trigger", "edit", "edit_done", "cancel", "place_new",
               "place_done", "set_moved"}
StorePcs == {"update_trade", "save_open", "save_dump"}
InTry == pc \in MonitorPcs \/ (pc \in StorePcs /\ ret # "after_add")

\* python adhoc_trade.py <side>: main() up to the mode switch.
Start ==
    /\ pc = "idle"
    /\ runs < MaxRuns
    /\ runs' = runs + 1
    /\ exit' = "none"
    /\ \/ /\ action' = "RESUME"
          /\ config' = NoConfig
          /\ pc' = "resume"
       \/ /\ opens < MaxOpens
          /\ \E l \in Launches :
                /\ action' = l[1]
                /\ config' = l[2]
          /\ pc' = "size"
    /\ UNCHANGED <<storeVars, side, qty, current_price, targets, sl_price, order,
                   tp_ids, tp_i, monVars, gwVars, clock, opens, saved, readerSaw,
                   unitVars>>

\* Mutant of Resume: "monitor_trade(trades[0], ...)", the first record.
Resume_First ==
    /\ pc = "resume"
    /\ LET ts == load_trades(file)
       IN  IF ts = <<>>
           THEN /\ Exit("No open trades found")
           ELSE /\ trade' = ts[1]
                /\ pc' = "monitor_trade"
                /\ UNCHANGED <<exit, storeLocals, openVars, sl_order_id, sl_moved,
                               curr_price, edit_resp, new_sl_resp, iter, calls>>
    /\ UNCHANGED <<file, nextOid, migrations, envVars>>

\* RESUME mode: monitor the last record, or return when there is none.
Resume ==
    /\ pc = "resume"
    /\ LET ts == load_trades(file)
       IN  IF ts = <<>>
           THEN /\ Exit("No open trades found")
           ELSE /\ trade' = ts[Len(ts)]
                /\ pc' = "monitor_trade"
                /\ UNCHANGED <<exit, storeLocals, openVars, sl_order_id, sl_moved,
                               curr_price, edit_resp, new_sl_resp, iter, calls>>
    /\ UNCHANGED <<file, nextOid, migrations, envVars>>

\* Mutant of QtyTooSmall: "if qty < 0", which lets a quantity of no lot through.
QtyTooSmall_Negative(q) == q < 0

\* "if qty <= 0: return"
QtyTooSmall(q) == q <= 0

\* main() lines 170-246: fetch data, size the position, plan, confirm.
Size ==
    /\ pc = "size"
    /\ \E df \in OpenFrames, confirm \in BOOLEAN :
        IF df.empty
        THEN Exit("traceback")
        ELSE LET q == RoundQty(config.pos_value)
             IN  IF QtyTooSmall(q)
                 THEN Exit("Quantity too small")
                 ELSE IF ~confirm
                 THEN Exit("declined")
                 ELSE /\ side' = action
                      /\ qty' = q
                      /\ current_price' = df.close
                      /\ sl_price' = get_candle_based_stop_loss(df.close, action,
                                        df.high, df.low, config.sl_candle_multiplier)
                      /\ targets' = calculate_fixed_point_targets(df.close, action,
                                        config.tp_fixed_points)
                      /\ pc' = "entry"
                      /\ UNCHANGED <<exit, storeLocals, action, config, order,
                                     tp_ids, tp_i, monVars, calls>>
    /\ UNCHANGED <<file, nextOid, migrations, envVars>>

\* The gateway answers a place_order: it hands out the next order id, or fails.
OrderSide(s) == IF s = "LONG" THEN "buy" ELSE "sell"
SlSide(order_side) == IF order_side = "buy" THEN "sell" ELSE "buy"

\* Mutant of EntryFailed: "if not order", which takes any answer for an entry.
EntryFailed_NoAnswer(resp) == ~resp.json

\* "if not order or not order.get('id'): return"
EntryFailed(resp) == ~HasId(resp)

\* main() lines 248-260: the market entry order.
Entry ==
    /\ pc = "entry"
    /\ \E resp \in PlaceResps(nextOid) :
        /\ nextOid' = IF HasId(resp) THEN nextOid + 1 ELSE nextOid
        /\ IF EntryFailed(resp)
           THEN Exit("Market Order Failed")
           ELSE /\ calls' = Append(calls, PlaceCall("main", OrderSide(side), qty,
                                                    "MARKET", NONE, resp))
                /\ pc' = "place_sl"
                /\ order' = resp
                /\ UNCHANGED <<exit, storeLocals, action, config, side, qty,
                               current_price, targets, sl_price, tp_ids, tp_i, monVars>>
    /\ UNCHANGED <<file, migrations, envVars>>

\* main() lines 262-265: the stop-loss order, for the full quantity.
PlaceSl ==
    /\ pc = "place_sl"
    /\ \E sl_resp \in PlaceResps(nextOid) :
        /\ calls' = Append(calls, PlaceCall("main", SlSide(OrderSide(side)), qty,
                                            "STOP_MARKET", sl_price, sl_resp))
        /\ nextOid' = IF HasId(sl_resp) THEN nextOid + 1 ELSE nextOid
        /\ sl_order_id' = IF sl_resp.json THEN sl_resp.id ELSE NONE
    /\ tp_ids' = <<>>
    /\ tp_i' = 1
    /\ pc' = "place_tp"
    /\ UNCHANGED <<exit, storeVars, action, config, side, qty, current_price, targets,
                   sl_price, order, trade, sl_moved, curr_price, edit_resp,
                   new_sl_resp, iter, migrations, envVars>>

\* Mutant of TradeData: the record is created with the guard already set.
TradeData_Moved(now) ==
    [id |-> now, symbol |-> SYMBOL, side |-> side, qty |-> qty,
     entry_price |-> current_price, sl_order_id |-> sl_order_id,
     tp_order_ids |-> tp_ids, targets |-> targets,
     monitor_trigger_level |-> config.move_sl_to_entry_when_tp_hit,
     sl_moved |-> TRUE, uid |-> order.id]

\* The record main() saves (lines 276-287). uid is not a field of the
\* program's record: it labels the trade by its entry order, so that the
\* properties can follow one trade through the store.
TradeData(now) ==
    [id |-> now, symbol |-> SYMBOL, side |-> side, qty |-> qty,
     entry_price |-> current_price, sl_order_id |-> sl_order_id,
     tp_order_ids |-> tp_ids, targets |-> targets,
     monitor_trigger_level |-> config.move_sl_to_entry_when_tp_hit,
     sl_moved |-> FALSE, uid |-> order.id]

\* int(time.time()): the second of the last reading, or a later one.
Now(last) == IF last = 0 THEN {1} ELSE {last, last + 1}

\* main() lines 267-287: one limit order per target, then the record.
PlaceTp ==
    /\ pc = "place_tp"
    /\ IF tp_i <= Len(targets)
       THEN /\ \E tp_resp \in PlaceResps(nextOid) :
                /\ calls' = Append(calls, PlaceCall("main", SlSide(OrderSide(side)),
                                                    ChunkQty(qty), "LIMIT",
                                                    targets[tp_i], tp_resp))
                /\ nextOid' = IF HasId(tp_resp) THEN nextOid + 1 ELSE nextOid
                /\ tp_ids' = IF HasId(tp_resp) THEN Append(tp_ids, tp_resp.id) ELSE tp_ids
            /\ tp_i' = tp_i + 1
            /\ UNCHANGED <<pc, trade, clock, opens>>
       ELSE /\ \E now \in Now(clock) :
                /\ clock' = now
                /\ trade' = TradeData(now)
            /\ opens' = opens + 1
            /\ pc' = "add_trade"
            /\ UNCHANGED <<calls, nextOid, tp_ids, tp_i>>
    /\ UNCHANGED <<exit, storeVars, action, config, side, qty, current_price, targets,
                   sl_price, order, sl_order_id, sl_moved, curr_price, edit_resp,
                   new_sl_resp, iter, migrations, runs, saved, readerSaw, unitVars>>

\* add_trade, up to its save_trades.
AddTrade ==
    /\ pc = "add_trade"
    /\ trades' = Append(load_trades(file), trade)
    /\ ret' = "after_add"
    /\ pc' = "save_open"
    /\ UNCHANGED <<exit, file, w_i, u_key, u_val, openVars, monVars, gwVars, envVars>>

\* save_trades: open(TRADES_FILE, 'w') truncates the file, or raises OSError,
\* which nothing catches.
SaveOpen ==
    /\ pc = "save_open"
    /\ \/ /\ file' = Truncated
          /\ w_i' = 1
          /\ pc' = "save_dump"
          /\ UNCHANGED <<exit, trades, u_key, u_val, ret, openVars, monVars, calls>>
       \/ /\ Exit("OSError")
          /\ UNCHANGED file
    /\ UNCHANGED <<nextOid, migrations, envVars>>

\* save_trades: json.dump puts out the next record, or the end of the
\* document; the file is then closed and the store operation returns.
SaveDump ==
    /\ pc = "save_dump"
    /\ file' = DumpNext(file, trades, w_i)
    /\ IF w_i <= Len(trades)
       THEN /\ w_i' = w_i + 1
            /\ UNCHANGED <<pc, ret, saved>>
       ELSE /\ w_i' = 0
            /\ pc' = ret
            /\ ret' = ""
            /\ saved' = trades
    /\ UNCHANGED <<exit, trades, u_key, u_val, openVars, monVars, gwVars, clock, runs,
                   opens, readerSaw, unitVars>>

\* main() line 292: monitor_trade(trade_data, ...).
AfterAdd ==
    /\ pc = "after_add"
    /\ pc' = "monitor_trade"
    /\ UNCHANGED <<exit, storeVars, openVars, monVars, gwVars, envVars>>

\* monitor_trade lines 57-71: read the record; return when it has no
\* stop-loss order id.
MonitorTrade ==
    /\ pc = "monitor_trade"
    /\ IF trade.sl_order_id = NONE
       THEN Exit("No SL Order ID found")
       ELSE /\ sl_order_id' = trade.sl_order_id
            /\ sl_moved' = trade.sl_moved
            /\ pc' = "sleep"
            /\ UNCHANGED <<exit, storeLocals, openVars, trade, curr_price, edit_resp,
                           new_sl_resp, iter, calls>>
    /\ UNCHANGED <<file, nextOid, migrations, envVars>>

\* ----------------------------------------------------------- the monitor loop
\* Mutant of TriggerHit: the price has to pass the target, not reach it.
TriggerHit_Strict(t, moved, price) ==
    /\ t.monitor_trigger_level > 0
    /\ ~moved
    /\ LET target_idx == t.monitor_trigger_level - 1
       IN  /\ 0 <= target_idx
           /\ target_idx < Len(t.targets)
           /\ \/ t.side = "LONG" /\ price > t.targets[target_idx + 1]
              \/ t.side = "SHORT" /\ price < t.targets[target_idx + 1]

\* Mutant of TriggerHit: the guard sl_moved is not read.
TriggerHit_NoGuard(t, moved, price) ==
    /\ t.monitor_trigger_level > 0
    /\ LET target_idx == t.monitor_trigger_level - 1
       IN  /\ 0 <= target_idx
           /\ target_idx < Len(t.targets)
           /\ \/ t.side = "LONG" /\ price >= t.targets[target_idx + 1]
              \/ t.side = "SHORT" /\ price <= t.targets[target_idx + 1]

\* monitor_trade lines 95-104: whether this iteration moves the stop-loss.
TriggerHit(t, moved, price) ==
    /\ t.monitor_trigger_level > 0
    /\ ~moved
    /\ LET target_idx == t.monitor_trigger_level - 1
       IN  /\ 0 <= target_idx
           /\ target_idx < Len(t.targets)
           /\ \/ t.side = "LONG" /\ price >= t.targets[target_idx + 1]
              \/ t.side = "SHORT" /\ price <= t.targets[target_idx + 1]

\* One more successful migration action for trade u.
Migrated(m, u) ==
    IF u \in DOMAIN m THEN [m EXCEPT ![u] = @ + 1] ELSE m @@ (u :> 1)

\* lines 75-83: sleep, fetch the price; an empty frame skips the iteration.
Fetch ==
    /\ pc = "sleep"
    /\ iter < MaxIter
    /\ iter' = iter + 1
    /\ \E close \in MonitorPrices \cup {NoData} :
        IF close = NoData
        THEN UNCHANGED <<pc, curr_price>>
        ELSE /\ curr_price' = close
             /\ pc' = "trigger"
    /\ UNCHANGED <<exit, storeVars, openVars, trade, sl_order_id, sl_moved, edit_resp,
                   new_sl_resp, gwVars, envVars>>

\* lines 95-106: the trigger check.
Trigger ==
    /\ pc = "trigger"
    /\ pc' = IF TriggerHit(trade, sl_moved, curr_price) THEN "edit" ELSE "sleep"
    /\ UNCHANGED <<exit, storeVars, openVars, monVars, gwVars, envVars>>

\* line 110: edit_order on the stop-loss order, to the entry price.
Edit ==
    /\ pc = "edit"
    /\ \E resp \in EditResps :
        /\ edit_resp' = resp
        /\ calls' = Append(calls, EditCall(sl_order_id, trade.entry_price, resp))
        /\ migrations' = IF EditOk(resp) THEN Migrated(migrations, trade.uid)
                         ELSE migrations
    /\ pc' = "edit_done"
    /\ UNCHANGED <<exit, storeVars, openVars, trade, sl_order_id, sl_moved, curr_price,
                   new_sl_resp, iter, nextOid, envVars>>

\* lines 111-116: on success set the guard and call update_trade, else go on
\* to cancel and replace.
EditDone ==
    /\ pc = "edit_done"
    /\ IF EditOk(edit_resp)
       THEN /\ sl_moved' = TRUE
            /\ u_key' = "sl_moved"
            /\ u_val' = TRUE
            /\ ret' = "sleep"
            /\ pc' = "update_trade"
       ELSE /\ pc' = "cancel"
            /\ UNCHANGED <<sl_moved, u_key, u_val, ret>>
    /\ UNCHANGED <<exit, file, trades, w_i, openVars, trade, sl_order_id, curr_price,
                   edit_resp, new_sl_resp, iter, gwVars, envVars>>

\* line 117: cancel the stop-loss order (the answer is not read).
Cancel ==
    /\ pc = "cancel"
    /\ calls' = Append(calls, CancelCall(sl_order_id))
    /\ pc' = "place_new"
    /\ UNCHANGED <<exit, storeVars, openVars, monVars, nextOid, migrations, envVars>>

\* lines 118-121: place the replacement stop-loss at the entry price.
PlaceNew ==
    /\ pc = "place_new"
    /\ \E resp \in PlaceResps(nextOid) :
        /\ new_sl_resp' = resp
        /\ calls' = Append(calls, PlaceCall("monitor_trade", SlSide(OrderSide(trade.side)),
                                            trade.qty, "STOP_MARKET",
                                            trade.entry_price, resp))
        /\ nextOid' = IF HasId(resp) THEN nextOid + 1 ELSE nextOid
        /\ migrations' = IF HasId(resp) THEN Migrated(migrations, trade.uid)
                         ELSE migrations
    /\ pc' = "place_done"
    /\ UNCHANGED <<exit, storeVars, openVars, trade, sl_order_id, sl_moved, curr_price,
                   edit_resp, iter, envVars>>

\* Mutant of Replaced: "if new_sl_resp", which takes any answer for a new order.
Replaced_AnyAnswer(resp) == resp.json

\* "if new_sl_resp and new_sl_resp.get('id')"
Replaced(resp) == HasId(resp)

\* lines 122-124: take the new order id and save it.
PlaceDone ==
    /\ pc = "place_done"
    /\ IF Replaced(new_sl_resp)
       THEN /\ sl_order_id' = new_sl_resp.id
            /\ u_key' = "sl_order_id"
            /\ u_val' = new_sl_resp.id
            /\ ret' = "set_moved"
            /\ pc' = "update_trade"
       ELSE /\ pc' = "sleep"
            /\ UNCHANGED <<sl_order_id, u_key, u_val, ret>>
    /\ UNCHANGED <<exit, file, trades, w_i, openVars, trade, sl_moved, curr_price,
                   edit_resp, new_sl_resp, iter, gwVars, envVars>>

\* lines 125-126: set the guard and save it.
SetMoved ==
    /\ pc = "set_moved"
    /\ sl_moved' = TRUE
    /\ u_key' = "sl_moved"
    /\ u_val' = TRUE
    /\ ret' = "sleep"
    /\ pc' = "update_trade"
    /\ UNCHANGED <<exit, file, trades, w_i, openVars, trade, sl_order_id, curr_price,
                   edit_resp, new_sl_resp, iter, gwVars, envVars>>

\* update_trade, up to its save_trades: set the field in the first record
\* with the id and save; return without saving when no record has it.
UpdateTrade ==
    /\ pc = "update_trade"
    /\ LET ts == load_trades(file)
           i == FirstMatch(ts, trade.id)
       IN  IF i = 0
           THEN /\ pc' = ret
                /\ ret' = ""
                /\ UNCHANGED trades
           ELSE /\ trades' = [ts EXCEPT ![i] = SetField(ts[i], u_key, u_val)]
                /\ pc' = "save_open"
                /\ UNCHANGED ret
    /\ UNCHANGED <<exit, file, w_i, u_key, u_val, openVars, monVars, gwVars, envVars>>

\* SIGINT: a KeyboardInterrupt at the statement the process is at. Inside
\* monitor_trade's try block it is caught and monitor_trade returns;
\* anywhere else nothing catches it. A file being written is closed as it is.
Interrupt ==
    /\ pc # "idle"
    /\ IF InTry THEN Exit("Monitor Stopped") ELSE Exit("traceback")
    /\ UNCHANGED <<file, nextOid, migrations, envVars>>

\* Another process reads TRADES_FILE.
ReaderLoad ==
    /\ readerSaw' = file
    /\ UNCHANGED <<pc, exit, storeVars, openVars, monVars, gwVars, clock, runs, opens,
                   saved, unitVars>>

Next ==
    \/ Start \/ Resume \/ Size \/ Entry \/ PlaceSl \/ PlaceTp \/ AddTrade
    \/ SaveOpen \/ SaveDump \/ AfterAdd \/ MonitorTrade
    \/ Fetch \/ Trigger \/ Edit \/ EditDone \/ Cancel \/ PlaceNew \/ PlaceDone
    \/ SetMoved \/ UpdateTrade \/ Interrupt

Spec == Init /\ [][Next]_vars

\* The supervisor with a concurrent reader of the store.
SpecReader == Init /\ [][Next \/ ReaderLoad]_vars

\* ------------------------------------------------- the library, call by call
\* The functions of the trade store and of the risk planner, each called on
\* its own and run to its end, on a store some earlier processes have left.
MaxCalls == 2

\* A record as main() saves it: the id is the second it was created in, uid
\* labels the trade (its entry order), sl the stop-loss order id.
Rec(id, uid, sl, moved) ==
    [id |-> id, symbol |-> SYMBOL, side |-> "LONG", qty |-> 4,
     entry_price |-> 100, sl_order_id |-> sl, tp_order_ids |-> <<>>,
     targets |-> <<103>>, monitor_trigger_level |-> 1,
     sl_moved |-> moved, uid |-> uid]

\* The collections found in the store: none, one record, two records of
\* different seconds, two records of the same second (so of the same id).
SeedStores ==
    {<<>>,
     <<Rec(1, 1, 2, FALSE)>>,
     <<Rec(1, 1, 2, FALSE), Rec(2, 3, 4, FALSE)>>,
     <<Rec(1, 1, 2, TRUE), Rec(2, 3, 4, FALSE)>>,
     <<Rec(1, 1, 2, FALSE), Rec(1, 3, 4, FALSE)>>}
\* The file: missing, a whole document, a document cut short by an
\* interrupted writer, or a file the process may not read.
SeedFiles ==
    {FileMissing}
    \cup {[state |-> "json", recs |-> ts] : ts \in SeedStores}
    \cup {[state |-> "torn", recs |-> <<>>],
          [state |-> "torn", recs |-> <<Rec(1, 1, 2, FALSE)>>],
          [state |-> "unreadable", recs |-> <<Rec(1, 1, 2, FALSE)>>]}
\* The records added, the ids asked for (9: of no record), the fields set.
NewRecs == {Rec(2, 5, 6, FALSE), Rec(3, 5, NONE, FALSE)}
AskedIds == {1, 2, 9}
Updates == {<<"sl_moved", TRUE>>, <<"sl_order_id", 7>>}
\* The prices the risk planner is asked about.
PlanPrices == {90, 100, 110}

\* The direction strings passed: as main() passes them, and other spellings.
Directions == {"LONG", "SHORT", "long", "Short"}
\* atr and the multipliers; the reference candle may be given upside down.
Atrs == {0, 5}
Multipliers == {1, 2}
\* Lists of point offsets, not all in ascending order.
PointLists == {<<>>, <<3>>, <<3, 5>>, <<5, 3, 8>>}
\* The sizing policies and their inputs.
RiskTypes == {"FIXED_SIZE", "PERCENTAGE", "MARGIN", "MARGIN_PERCENTAGE"}
RiskValues == {10, 50}
Balances == {0, 200}
EntryPrices == {4, 50}
Leverages == {1, 10}

\* What lines 28-29 raise: open() on a file the process may not read,
\* json.load on a document that is not whole.
ReadRaises(f) ==
    IF f.state = "unreadable" THEN "PermissionError"
    ELSE IF f.state = "torn" THEN "JSONDecodeError"
    ELSE ""

\* Mutant of ExceptException: "except json.JSONDecodeError".
ExceptException_DecodeOnly(e) == e = "JSONDecodeError"

\* "except Exception": OSError and ValueError are subclasses of Exception.
ExceptException(e) == e \in {"PermissionError", "JSONDecodeError"}

\* load_trades as a call: what it returns, and what it raises ("": nothing).
LoadTradesCall(f) ==
    IF f.state = "missing" THEN [raised |-> "", value |-> <<>>]
    ELSE IF ReadRaises(f) = "" THEN [raised |-> "", value |-> f.recs]
    ELSE IF ExceptException(ReadRaises(f)) THEN [raised |-> "", value |-> <<>>]
    ELSE [raised |-> ReadRaises(f), value |-> <<>>]

\* Mutant of add_trade: the list is started afresh.
add_trade_Fresh(f, trade_data) == [state |-> "json", recs |-> <<trade_data>>]

\* add_trade run to its end: the file it leaves.
add_trade(f, trade_data) ==
    [state |-> "json", recs |-> Append(load_trades(f), trade_data)]

\* Mutant of update_trade: no return after the first match.
update_trade_EveryMatch(f, trade_id, key, value) ==
    LET ts == load_trades(f)
    IN  IF FirstMatch(ts, trade_id) = 0 THEN f
        ELSE [state |-> "json",
              recs |-> [i \in 1..Len(ts) |->
                         IF ts[i].id = trade_id THEN SetField(ts[i], key, value)
                         ELSE ts[i]]]

\* update_trade run to its end: the file is rewritten only on a match.
update_trade(f, trade_id, key, value) ==
    LET ts == load_trades(f)
        i == FirstMatch(ts, trade_id)
    IN  IF i = 0 THEN f
        ELSE [state |-> "json", recs |-> [ts EXCEPT ![i] = SetField(ts[i], key, value)]]

\* delete_trade run to its end: the file is rewritten in every case.
delete_trade(f, trade_id) ==
    [state |-> "json",
     recs |-> SelectSeq(load_trades(f), LAMBDA t : t.id # trade_id)]

\* Mutant of calculate_targets: the direction is not read.
calculate_targets_LongOnly(entry_price, direction, stop_price) ==
    LET risk_distance == Abs(entry_price - stop_price)
    IN  IF risk_distance = 0 THEN [r \in 1..4 |-> entry_price]
        ELSE [r \in 1..4 |-> entry_price + risk_distance * r]

\* RiskManager.calculate_targets: four targets at 1 to 4 times the risk.
calculate_targets(entry_price, direction, stop_price) ==
    LET risk_distance == Abs(entry_price - stop_price)
    IN  IF risk_distance = 0 THEN [r \in 1..4 |-> entry_price]
        ELSE [r \in 1..4 |->
                IF Upper(direction) = "LONG" THEN entry_price + risk_distance * r
                ELSE entry_price - risk_distance * r]

\* No supervisor process runs, and none has run.
NoProcess ==
    /\ pc = "idle" /\ ret = "" /\ exit = "none" /\ action = ""
    /\ config = NoConfig /\ side = "" /\ qty = 0 /\ current_price = NoData
    /\ order = NoResp /\ targets = <<>> /\ sl_price = 0 /\ sl_order_id = NONE
    /\ tp_ids = <<>> /\ tp_i = 0 /\ trade = NoTrade /\ sl_moved = FALSE
    /\ curr_price = NoData /\ edit_resp = NoResp /\ new_sl_resp = NoResp
    /\ trades = <<>> /\ w_i = 0 /\ u_key = "" /\ u_val = NONE
    /\ calls = <<>> /\ iter = 0 /\ runs = 0 /\ opens = 0 /\ migrations = <<>>

\* The store as earlier processes left it; order ids up to 9 are in use.
InitSeeded ==
    /\ NoProcess
    /\ file \in SeedFiles
    /\ clock = 0
    /\ nextOid = 10
    /\ saved = load_trades(file)
    /\ readerSaw = FileMissing
    /\ call = NoCall
    /\ before = file
    /\ out = NONE

\* A call leaves the supervisor's variables alone.
CallFrame ==
    /\ call.n < MaxCalls
    /\ before' = file
    /\ UNCHANGED <<pc, exit, storeLocals, openVars, monVars, gwVars, clock, runs,
                   opens, saved, readerSaw>>
Nth == call.n + 1

CallLoadTrades ==
    /\ CallFrame
    /\ call' = [fn |-> "load_trades", n |-> Nth]
    /\ out' = LoadTradesCall(file)
    /\ UNCHANGED file

CallAddTrade ==
    /\ CallFrame
    /\ \E r \in NewRecs :
        /\ call' = [fn |-> "add_trade", n |-> Nth, rec |-> r]
        /\ file' = add_trade(file, r)
    /\ out' = NONE

CallUpdateTrade ==
    /\ CallFrame
    /\ \E id \in AskedIds, u \in Updates :
        /\ call' = [fn |-> "update_trade", n |-> Nth, id |-> id, key |-> u[1],
                    value |-> u[2]]
        /\ file' = update_trade(file, id, u[1], u[2])
    /\ out' = NONE

CallDeleteTrade ==
    /\ CallFrame
    /\ \E id \in AskedIds :
        /\ call' = [fn |-> "delete_trade", n |-> Nth, id |-> id]
        /\ file' = delete_trade(file, id)
    /\ out' = NONE

CallCalculateTargets ==
    /\ CallFrame
    /\ \E e \in PlanPrices, d \in Sides, sl \in PlanPrices :
        /\ call' = [fn |-> "calculate_targets", n |-> Nth, entry_price |-> e,
                    direction |-> d, sl_price |-> sl]
        /\ out' = calculate_targets(e, d, sl)
    /\ UNCHANGED file

CallGetStopLossPrice ==
    /\ CallFrame
    /\ \E e \in PlanPrices, d \in Directions, atr \in Atrs, m \in Multipliers :
        /\ call' = [fn |-> "get_stop_loss_price", n |-> Nth, entry_price |-> e,
                    direction |-> d, atr |-> atr, sl_multiplier |-> m]
        /\ out' = get_stop_loss_price(e, d, atr, m)
    /\ UNCHANGED file

CallGetCandleBasedStopLoss ==
    /\ CallFrame
    /\ \E e \in PlanPrices, d \in Directions, h \in PlanPrices, l \in PlanPrices,
          m \in Multipliers :
        /\ call' = [fn |-> "get_candle_based_stop_loss", n |-> Nth, entry_price |-> e,
                    direction |-> d, candle_high |-> h, candle_low |-> l,
                    multiplier |-> m]
        /\ out' = get_candle_based_stop_loss(e, d, h, l, m)
    /\ UNCHANGED file

CallCalculateFixedPointTargets ==
    /\ CallFrame
    /\ \E e \in PlanPrices, d \in Directions, ps \in PointLists :
        /\ call' = [fn |-> "calculate_fixed_point_targets", n |-> Nth,
                    entry_price |-> e, direction |-> d, points |-> ps]
        /\ out' = calculate_fixed_point_targets(e, d, ps)
    /\ UNCHANGED file

CallCalculateQty ==
    /\ CallFrame
    /\ \E t \in RiskTypes, v \in RiskValues, b \in Balances, e \in EntryPrices,
          lev \in Leverages :
        /\ call' = [fn |-> "calculate_qty", n |-> Nth, risk_type |-> t,
                    risk_value |-> v, balance |-> b, entry_price |-> e,
                    leverage |-> lev]
        /\ out' = calculate_qty(t, v, b, e, lev)
    /\ UNCHANGED file

NextUnit ==
    \/ CallLoadTrades \/ CallAddTrade \/ CallUpdateTrade \/ CallDeleteTrade
    \/ CallCalculateTargets \/ CallGetStopLossPrice \/ CallGetCandleBasedStopLoss
    \/ CallCalculateFixedPointTargets \/ CallCalculateQty

SpecUnit == InitSeeded /\ [][NextUnit]_vars

\* ------------------------------------------- RESUME on a store left behind
\* python adhoc_trade.py RESUME: main() up to the mode switch.
ResumeStart ==
    /\ pc = "idle"
    /\ runs < MaxRuns
    /\ runs' = runs + 1
    /\ exit' = "none"
    /\ action' = "RESUME"
    /\ config' = NoConfig
    /\ pc' = "resume"
    /\ UNCHANGED <<storeVars, side, qty, current_price, targets, sl_price, order,
                   tp_ids, tp_i, monVars, gwVars, clock, opens, saved, readerSaw,
                   unitVars>>

NextResume ==
    \/ ResumeStart \/ Resume \/ MonitorTrade
    \/ Fetch \/ Trigger \/ Edit \/ EditDone \/ Cancel \/ PlaceNew \/ PlaceDone
    \/ SetMoved \/ UpdateTrade \/ SaveOpen \/ SaveDump \/ Interrupt

SpecResume == InitSeeded /\ [][NextResume]_vars

\* ------------------------------------------------------------------- claims
\* A successful migration action of the monitor: an edit_order that reported
\* success, or a replacement stop-loss that was placed.
IsMigration(c) ==
    /\ c.by = "monitor_trade"
    /\ \/ c.op = "edit_order" /\ c.res = CODE_OK
       \/ c.op = "place_order" /\ c.res # NONE
\* A replacement place_order that returned no order id.
FailedReplace(c) == c.by = "monitor_trade" /\ c.op = "place_order" /\ c.res = NONE
\* The process runs the open flow.
OpenProcess == action \in Sides
\* The readable store holds a record of trade u.
Recorded(f, u) == \E i \in 1..Len(load_trades(f)) : load_trades(f)[i].uid = u

\* C1: within one run of monitor_trade, a successful migration action is the
\* last gateway call of the run (no later edit_order, cancel_order or
\* place_order, so at most one migration), and the in-memory guard sl_moved
\* is true whenever the next iteration is about to start after it.
C1_OneMigrationPerRun ==
    /\ \A i \in 1..Len(calls) : IsMigration(calls[i]) => i = Len(calls)
    /\ (pc = "sleep" /\ \E i \in 1..Len(calls) : IsMigration(calls[i])) => sl_moved

\* C1 witness: after a successful migration, a later iteration of the same
\* run evaluates the trigger at a price that satisfies it.
C1_Witness ==
    /\ pc = "trigger"
    /\ TriggerHit(trade, FALSE, curr_price)
    /\ \E i \in 1..Len(calls) : IsMigration(calls[i])

\* C2: for one trade, over all monitor runs, interrupts and RESUME restarts,
\* the number of successful migration actions never exceeds one.
C2_MigratedOnce == \A u \in DOMAIN migrations : migrations[u] <= 1

\* C3: when the replacement place_order returned no order id, the step that
\* reads the answer leaves the in-memory sl_moved false, the in-memory
\* sl_order_id and the store unchanged and the persisted sl_moved false, and
\* goes on to the next iteration; and an iteration that follows such a failure
\* and whose price satisfies the trigger goes on to edit_order again.
C3_FailedReplacementRetries ==
    [][ /\ (pc = "place_done" /\ ~HasId(new_sl_resp) /\ pc' # "idle")
            => /\ ~sl_moved /\ ~sl_moved'
               /\ sl_order_id' = sl_order_id
               /\ file' = file
               /\ \A i \in 1..Len(load_trades(file)) :
                    load_trades(file)[i].uid = trade.uid => ~load_trades(file)[i].sl_moved
               /\ pc' = "sleep"
        /\ (/\ pc = "trigger"
            /\ calls # <<>>
            /\ FailedReplace(calls[Len(calls)])
            /\ TriggerHit(trade, FALSE, curr_price)
            /\ pc' # "idle")
            => pc' = "edit" ]_vars

\* C3 witness: after a failed replacement, a later iteration has called
\* edit_order again.
C3_Witness ==
    /\ pc = "edit_done"
    /\ \E i \in 1..Len(calls) : FailedReplace(calls[i])

\* C4: the record is in the store when the open flow enters monitor_trade,
\* and whenever a process whose market entry order was accepted ends, the
\* store holds the record of that trade.
C4_CrashAfterEntryLeavesRecord ==
    [][ /\ (pc = "after_add" /\ pc' = "monitor_trade") => Recorded(file', order.id)
        /\ (HasId(order) /\ pc' = "idle") => Recorded(file', order.id) ]_vars

\* C5: the open flow goes on from the market entry order only when the
\* gateway accepted it with an order id; otherwise the process ends there,
\* with no order submitted after it and the store untouched.
C5_EntryFailureAborts ==
    [][ pc = "entry" =>
            \/ /\ pc' = "place_sl"
               /\ nextOid' = nextOid + 1
               /\ HasId(order') /\ order'.id = nextOid
            \/ /\ pc' = "idle"
               /\ Len(calls) = 0 /\ Len(calls') = 0
               /\ file' = file /\ saved' = saved ]_vars

\* C5 witness: an open attempt ended on a failed market entry order.
C5_Witness == pc = "idle" /\ exit = "Market Order Failed"

\* C6: when the quantity rounded to the lot step is <= 0, the open attempt
\* ends before any place_order: no gateway call is logged, no order id is
\* handed out and the store is untouched.
C6_TooSmallAborts ==
    [][ (pc = "size" /\ RoundQty(config.pos_value) <= 0) =>
            /\ pc' = "idle"
            /\ Len(calls') = 0
            /\ nextOid' = nextOid
            /\ file' = file /\ saved' = saved ]_vars

\* C6 witness: an open attempt with a fixed quantity of 0.0005 ended on the
\* quantity check.
C6_Witness == pc = "idle" /\ exit = "Quantity too small"

\* C7: a record is first saved with sl_moved false, and from one completed
\* save to the next no record's sl_moved goes from true to false.
C7_SlMovedMonotonic ==
    [][ \A j \in 1..Len(saved') :
            /\ \A i \in 1..Len(saved) :
                (saved[i].uid = saved'[j].uid /\ saved[i].sl_moved) => saved'[j].sl_moved
            /\ (\A i \in 1..Len(saved) : saved[i].uid # saved'[j].uid)
                => ~saved'[j].sl_moved ]_vars

\* C7 witness: a record saved with sl_moved true is still so when a resumed
\* monitor evaluates its trigger.
C7_Witness ==
    /\ pc = "trigger"
    /\ runs = 2
    /\ \E i \in 1..Len(load_trades(file)) :
        load_trades(file)[i].uid = trade.uid /\ load_trades(file)[i].sl_moved

\* C8: in every persisted record, targets is as long as tp_order_ids.
C8_TargetsMatchOrders ==
    \A i \in 1..Len(load_trades(file)) :
        Len(load_trades(file)[i].targets) = Len(load_trades(file)[i].tp_order_ids)

\* C9: a concurrent reader never finds a partially written collection in
\* the file: what it reads is a whole document (or no file).
C9_ReaderSeesWhole == readerSaw.state # "torn"

\* C10: an interrupt caught by monitor_trade leaves the file holding exactly
\* the collection of the last completed save, readable.
C10_InterruptKeepsStore ==
    [][ (pc # "idle" /\ exit' = "Monitor Stopped")
            => file' = [state |-> "json", recs |-> saved'] ]_vars

\* C11: when a store write fails (save_trades raises), the process is still
\* running and is at the same write again, with the same payload and the
\* same caller to return to.
C11_FailedWriteRetried ==
    [][ (pc = "save_open" /\ exit' = "OSError")
            => (pc' = "save_open" /\ trades' = trades /\ ret' = ret) ]_vars

\* The ids of the take-profit orders the gateway accepted, in target order.
PlacedTpIds ==
    LET lim == SelectSeq(calls, LAMBDA c : c.by = "main" /\ c.type = "LIMIT" /\ c.res # NONE)
    IN  [i \in 1..Len(lim) |-> lim[i].res]
\* The stop-loss order main() submitted, as the log has it.
SlCalls == SelectSeq(calls, LAMBDA c : c.by = "main" /\ c.type = "STOP_MARKET")

\* C12: after a confirmed entry and any subset of failed protective orders,
\* the record add_trade saved is the last of the store, its tp_order_ids are
\* the ids of the accepted take-profit orders in target order and its
\* sl_order_id is the stop-loss id or null; and monitor_trade, entered from
\* the open flow and not interrupted, goes on to its polling loop.
C12_PartialSuccessMonitored ==
    [][ /\ pc = "after_add" =>
            /\ HasId(order)
            /\ load_trades(file) # <<>>
            /\ load_trades(file)[Len(load_trades(file))] = trade
            /\ trade.tp_order_ids = PlacedTpIds
            /\ Len(SlCalls) = 1 /\ trade.sl_order_id = SlCalls[1].res
        /\ (pc = "monitor_trade" /\ OpenProcess /\ exit' # "traceback")
            => pc' = "sleep" ]_vars

\* C13: when the open flow has submitted its protective orders, there is
\* exactly one stop-loss order, for the full quantity, and one limit order
\* per target, each for the quantity divided by the number of targets (to
\* the lot step).
C13_ChunkPerTarget ==
    pc = "add_trade" =>
        /\ Len(SlCalls) = 1 /\ SlCalls[1].qty = qty
        /\ LET lim == SelectSeq(calls, LAMBDA c : c.by = "main" /\ c.type = "LIMIT")
           IN  /\ Len(lim) = Len(targets)
               /\ \A i \in 1..Len(lim) :
                    /\ lim[i].price = targets[i]
                    /\ Abs(lim[i].qty * Len(targets) - qty) < Len(targets)

\* C14: RESUME returns without monitoring when load_trades() is empty and
\* otherwise hands the last record to monitor_trade; the process monitors
\* that one record to its end, submits no order of main() and adds no
\* record to the store.
C14_ResumeMonitorsLast ==
    [][ /\ pc = "resume" =>
            \/ pc' = "idle" /\ exit' = "traceback"
            \/ /\ load_trades(file) = <<>>
               /\ pc' = "idle" /\ exit' = "No open trades found"
            \/ /\ load_trades(file) # <<>>
               /\ pc' = "monitor_trade"
               /\ trade' = load_trades(file)[Len(load_trades(file))]
        /\ (action = "RESUME" /\ pc # "resume" /\ pc' # "idle") => trade' = trade
        /\ action = "RESUME" =>
            /\ \A i \in 1..Len(calls') : calls'[i].by = "monitor_trade"
            /\ Len(saved') = Len(saved)
            /\ opens' = opens ]_vars

\* C14 witness: RESUME on a store of two records polls for the second one.
C14_Witness ==
    /\ action = "RESUME"
    /\ pc = "trigger"
    /\ Len(load_trades(file)) = 2
    /\ trade = load_trades(file)[2]
    /\ trade # load_trades(file)[1]

\* C15: add_trade(r) on a readable collection, followed by load_trades(),
\* returns the previous records unchanged and in order, followed by r.
C15_AddThenList ==
    (call.fn = "add_trade" /\ before.state = "json")
        => LoadTradesCall(file) = [raised |-> "", value |-> Append(before.recs, call.rec)]

\* C15 witness: a record was added to a collection of two.
C15_Witness ==
    /\ call.fn = "add_trade"
    /\ before.state = "json"
    /\ Len(before.recs) = 2

\* C16: update_trade(id, key, value) with no record of that id leaves the
\* file as it was; otherwise one record of that id has the field key set to
\* value, its other fields are unchanged and so is every other record.
C16_UpdateOnlyField ==
    call.fn = "update_trade" =>
        LET b == load_trades(before)
            a == load_trades(file)
        IN  IF \A i \in 1..Len(b) : b[i].id # call.id
            THEN file = before
            ELSE /\ Len(a) = Len(b)
                 /\ \E i \in 1..Len(b) :
                        /\ b[i].id = call.id
                        /\ DOMAIN a[i] = DOMAIN b[i]
                        /\ a[i][call.key] = call.value
                        /\ \A k \in DOMAIN b[i] \ {call.key} : a[i][k] = b[i][k]
                        /\ \A j \in 1..Len(b) : j # i => a[j] = b[j]

\* C16 witness: update_trade changed a collection of two records.
C16_Witness ==
    /\ call.fn = "update_trade"
    /\ Len(load_trades(before)) = 2
    /\ file # before

\* C17: delete_trade(id) with no record of that id leaves the collection
\* load_trades returns unchanged; otherwise it removes exactly one record,
\* one with that id, and leaves the others as they were, in order.
C17_DeleteExactlyOne ==
    call.fn = "delete_trade" =>
        LET b == load_trades(before)
            a == load_trades(file)
        IN  IF \A i \in 1..Len(b) : b[i].id # call.id
            THEN a = b
            ELSE \E i \in 1..Len(b) :
                    /\ b[i].id = call.id
                    /\ a = [j \in 1..(Len(b) - 1) |-> IF j < i THEN b[j] ELSE b[j + 1]]

\* C18: load_trades on a file that is missing, unreadable or not a whole
\* document returns the empty collection and raises nothing.
C18_LoadDegrades ==
    (call.fn = "load_trades" /\ before.state # "json")
        => out = [raised |-> "", value |-> <<>>]

\* C18 witness: load_trades was called on a file the process may not read.
C18_Witness == call.fn = "load_trades" /\ before.state = "unreadable"

\* C19: the quantity the open flow orders with is the configured quantity
\* rounded down to the lot step: never greater than the unrounded quantity.
C19_RoundedDown ==
    (OpenProcess /\ pc \notin {"size", "idle"}) => qty * STEP_TENTHS <= config.pos_value

\* C20: calculate_targets returns four targets, the k-th at k times the risk
\* distance |entry - stop| above (LONG) or below (SHORT) the entry; strictly
\* further from the entry one after the other when the distance is
\* positive, all equal to the entry when it is zero.
C20_FourTargets ==
    call.fn = "calculate_targets" =>
        LET e == call.entry_price
            d == Abs(call.entry_price - call.sl_price)
            long == call.direction = "LONG"
        IN  /\ Len(out) = 4
            /\ \A k \in 1..4 : out[k] = IF long THEN e + k * d ELSE e - k * d
            /\ d > 0 =>
                /\ IF long THEN out[1] > e ELSE out[1] < e
                /\ \A k \in 1..3 : IF long THEN out[k + 1] > out[k] ELSE out[k + 1] < out[k]
            /\ d = 0 => \A k \in 1..4 : out[k] = e

\* C20 witness: targets were computed for a SHORT with a positive risk.
C20_Witness ==
    /\ call.fn = "calculate_targets"
    /\ call.direction = "SHORT"
    /\ call.entry_price # call.sl_price

\* The spellings the claims take for one direction.
IsLong(d) == d \in {"LONG", "long", "Long"}
IsShort(d) == d \in {"SHORT", "short", "Short"}

\* C21: get_candle_based_stop_loss returns entry - |high - low| * multiplier
\* for LONG and entry + |high - low| * multiplier for SHORT, and
\* get_stop_loss_price returns entry - atr * sl_multiplier for LONG and
\* entry + atr * sl_multiplier for SHORT, however the direction is cased.
C21_StopLossMirrors ==
    /\ call.fn = "get_candle_based_stop_loss" =>
        LET dist == Abs(call.candle_high - call.candle_low) * call.multiplier
        IN  /\ IsLong(call.direction) => out = call.entry_price - dist
            /\ IsShort(call.direction) => out = call.entry_price + dist
    /\ call.fn = "get_stop_loss_price" =>
        LET dist == call.atr * call.sl_multiplier
        IN  /\ IsLong(call.direction) => out = call.entry_price - dist
            /\ IsShort(call.direction) => out = call.entry_price + dist

\* C21 witness: get_stop_loss_price was asked for a "long" with a positive atr.
C21_Witness ==
    /\ call.fn = "get_stop_loss_price"
    /\ call.direction = "long"
    /\ call.atr > 0

\* C22: calculate_fixed_point_targets returns as many targets as there are
\* offsets, the i-th being entry + p_i for LONG and entry - p_i for SHORT.
C22_FixedPointTargets ==
    call.fn = "calculate_fixed_point_targets" =>
        /\ Len(out) = Len(call.points)
        /\ \A i \in 1..Len(call.points) :
            /\ IsLong(call.direction) => out[i] = call.entry_price + call.points[i]
            /\ IsShort(call.direction) => out[i] = call.entry_price - call.points[i]

\* C22 witness: targets were built for a SHORT from three offsets.
C22_Witness ==
    /\ call.fn = "calculate_fixed_point_targets"
    /\ call.direction = "SHORT"
    /\ Len(call.points) = 3

\* C23: calculate_qty returns risk_value for FIXED_SIZE, (balance *
\* risk_value / 100) / price for PERCENTAGE, (risk_value * leverage) / price
\* for MARGIN and (balance * risk_value / 100 * leverage) / price for
\* MARGIN_PERCENTAGE.
C23_QtyByPolicy ==
    call.fn = "calculate_qty" =>
        LET v == call.risk_value
            b == call.balance
            e == call.entry_price
            lev == call.leverage
        IN  /\ call.risk_type = "FIXED_SIZE" => FracEq(out, Frac(v, 1))
            /\ call.risk_type = "PERCENTAGE" => FracEq(out, Frac(b * v, 100 * e))
            /\ call.risk_type = "MARGIN" => FracEq(out, Frac(v * lev, e))
            /\ call.risk_type = "MARGIN_PERCENTAGE"
                => FracEq(out, Frac(b * v * lev, 100 * e))

\* C23 witness: a MARGIN quantity was computed with a leverage above 1.
C23_Witness ==
    /\ call.fn = "calculate_qty"
    /\ call.risk_type = "MARGIN"
    /\ call.leverage > 1

\* The condition C24 gives for calling edit_order, on the price just fetched.
MigrationDue ==
    /\ ~sl_moved
    /\ trade.monitor_trigger_level > 0
    /\ trade.monitor_trigger_level <= Len(trade.targets)
    /\ IF trade.side = "LONG"
       THEN curr_price >= trade.targets[trade.monitor_trigger_level]
       ELSE trade.side = "SHORT" /\ curr_price <= trade.targets[trade.monitor_trigger_level]

\* C24: an iteration that fetched a price goes on to edit_order exactly when
\* sl_moved is false, the trigger level is positive and within targets, and
\* the price has reached that target in the trade's direction; edit_order is
\* called from nowhere else; an iteration with an empty fetch, or one that
\* does not meet the condition, calls no gateway, leaves the store alone and
\* goes back to sleep.
C24_EditIffTriggered ==
    [][ /\ (pc = "sleep" /\ pc' # "idle") =>
            /\ pc' \in {"sleep", "trigger"}
            /\ calls' = calls /\ file' = file
        /\ (pc = "trigger" /\ pc' # "idle") =>
            /\ pc' = IF MigrationDue THEN "edit" ELSE "sleep"
            /\ calls' = calls /\ file' = file
        /\ (pc = "edit" /\ pc' # "idle") =>
            /\ Len(calls') = Len(calls) + 1
            /\ calls'[Len(calls')].op = "edit_order"
        /\ (Len(calls') > Len(calls) /\ calls'[Len(calls')].op = "edit_order")
            => pc = "edit"
        /\ (pc' = "edit" /\ pc # "edit") => pc = "trigger" ]_vars

\* C24 witness: an iteration of a SHORT trade's monitor has gone on to
\* edit_order after an earlier one went back to sleep.
C24_Witness ==
    /\ pc = "edit"
    /\ trade.side = "SHORT"
    /\ iter = 2
    /\ calls = <<>>

\* The last gateway call of the process.
LastCall == calls[Len(calls)]
\* A store operation of the monitor returns to the polling loop.
BackToSleep == pc \in {"save_dump", "update_trade"} /\ pc' = "sleep"

\* C25: the migration is edit_order on the current stop-loss id at the
\* record's entry price; cancel_order on that id follows only an edit that
\* did not report success, and place_order of a stop-loss at the entry
\* price, for the full quantity on the closing side, follows the cancel;
\* after a successful edit no cancel or place is issued and the persisted
\* sl_order_id is as it was; after a successful replacement the persisted
\* record of the trade holds the new order id and sl_moved = true.
C25_MigrationProtocol ==
    [][ /\ (pc = "edit" /\ pc' # "idle") =>
            /\ calls' = Append(calls, calls'[Len(calls')])
            /\ calls'[Len(calls')].op = "edit_order"
            /\ calls'[Len(calls')].ref = sl_order_id
            /\ calls'[Len(calls')].price = trade.entry_price
        /\ (pc = "edit_done" /\ pc' # "idle") =>
            /\ calls' = calls
            /\ pc' = IF LastCall.res = CODE_OK THEN "update_trade" ELSE "cancel"
        /\ (pc = "cancel" /\ pc' # "idle") =>
            /\ LastCall.op = "edit_order" /\ LastCall.res # CODE_OK
            /\ calls' = Append(calls, calls'[Len(calls')])
            /\ calls'[Len(calls')].op = "cancel_order"
            /\ calls'[Len(calls')].ref = LastCall.ref
            /\ pc' = "place_new"
        /\ (pc = "place_new" /\ pc' # "idle") =>
            /\ LastCall.op = "cancel_order"
            /\ calls' = Append(calls, calls'[Len(calls')])
            /\ calls'[Len(calls')].op = "place_order"
            /\ calls'[Len(calls')].type = "STOP_MARKET"
            /\ calls'[Len(calls')].price = trade.entry_price
            /\ calls'[Len(calls')].qty = trade.qty
            /\ calls'[Len(calls')].side = IF trade.side = "LONG" THEN "sell" ELSE "buy"
        /\ (pc \in MonitorPcs /\ pc \notin {"edit", "cancel", "place_new"})
            => calls' = calls \/ pc' = "idle"
        /\ (BackToSleep /\ LastCall.op = "edit_order") =>
            /\ LastCall.res = CODE_OK
            /\ \A i \in 1..Len(load_trades(file')) :
                load_trades(file')[i].uid = trade.uid
                    => load_trades(file')[i].sl_order_id = trade.sl_order_id
        /\ (BackToSleep /\ LastCall.op = "place_order") =>
            /\ LastCall.res # NONE
            /\ \E i \in 1..Len(load_trades(file')) :
                load_trades(file')[i].uid = trade.uid
            /\ \A i \in 1..Len(load_trades(file')) :
                load_trades(file')[i].uid = trade.uid
                    => /\ load_trades(file')[i].sl_order_id = LastCall.res
                       /\ load_trades(file')[i].sl_moved ]_vars

\* C26: from one completed save to the next, every record is still there,
\* in its place and with its id; only sl_order_id and sl_moved of a record
\* may differ, and only in the record of the trade being monitored.
C26_RecordsKept ==
    [][ saved' # saved =>
            \A i \in 1..Len(saved) :
                /\ i <= Len(saved')
                /\ saved'[i].id = saved[i].id
                /\ \A k \in DOMAIN saved[i] \ {"sl_order_id", "sl_moved"} :
                    saved'[i][k] = saved[i][k]
                /\ saved[i].uid # trade.uid => saved'[i] = saved[i] ]_vars

====
